---- MODULE Spec2Model ----
(***************************************************************************)
(* DIYRNGGenerator (src/diyrng_generator.py): a generator object, the      *)
(* caller's thread that constructs it and calls its methods, the daemon    *)
(* thread that runs _continuous_entropy_collection, and the PyAudio        *)
(* session and stream the object drives.                                   *)
(*                                                                         *)
(* PyAudio, hashlib, numpy.fft, os.urandom and the clock are outside the   *)
(* repository.  The model gives them their interface:                      *)
(*   - a call on a closed stream raises in is_stopped() and read();        *)
(*     stop_stream() and close() on a stream that is not running / already *)
(*     closed return without doing anything;                               *)
(*   - any call that reaches the device (PyAudio(), open, is_stopped,      *)
(*     read, stop_stream, close on an open stream) may raise;              *)
(*   - terminate() ends the session and closes the streams it still has;   *)
(*     a session whose PyAudio object is dropped stays initialized;        *)
(*   - a digest is a fixed function of its input with a fixed output       *)
(*     length (32 and 64 bytes);                                           *)
(*   - os.urandom, time.time_ns and the timing deltas are drawn from small *)
(*     sets.                                                               *)
(***************************************************************************)
EXTENDS Integers, Sequences, FiniteSets, TLC

(***************************************************************************)
(* Bounds of the model.                                                    *)
(***************************************************************************)
\* number of method calls the caller makes after construction
MaxOps == 2
\* capacity of entropy_queue; queue.Queue(maxsize=1000) in the source, scaled
QueueMaxSize == 1
\* the constructor's chunk_size argument (default 1024 in the source)
ChunkSize == 6
\* iterations the collector's loop starts
MaxIters == 2
\* longest bit sequence handed to _von_neumann_debias on its own
MaxBits == 6
\* calls made on one LCGGenerator or XORShiftGenerator
MaxGenCalls == 3
\* largest n handed to generate_sequence
MaxSeqLen == 2
\* capacity of entropy_history; deque(maxlen=10000) in the source, scaled
HistoryMaxLen == 120

(***************************************************************************)
(* Program constants.                                                      *)
(***************************************************************************)
\* os.urandom(32): the fallback sample and the seeding read
FallbackLen == 32
\* os.urandom(16) mixed in by _collect_additional_entropy
MixLen == 16
\* range(20): CPU jitter samples of _collect_additional_entropy
JitterSamples == 20
\* min(10, len(audio_array)): jitter samples of one extraction
MaxExtractJitter == 10
\* len(audio_array) >= 64 enables the spectral feature
SpectralMin == 64
\* entropy[:100] goes to the history
HistorySlice == 100
\* entropy[-32:] goes to the stage-2 digest
TailLen == 32
\* xor_result[:4] is the output, xor_result[4:28] the new pool
OutLen == 4
PoolEnd == 28

\* bytearray(xor_result[4:28]): the length of the pool next() leaves
PoolLen == 24
\* stage2_hash[:32] and stage2_hash[32:]
HashHalf == 32
\* struct.pack('Q', ...) and struct.pack('I', ...)
PackQ == 8
PackI == 4
\* len(self.entropy_history) < 100
MetricsMin == 100
\* unique_bytes / 256.0
ByteValues == 256
\* LCGGenerator's default modulus 2**31 - 1, multiplier and increment
DefaultModulus == 2147483647
DefaultMultiplier == 1664525
DefaultIncrement == 1013904223
\* XORShiftGenerator.next: << 13, >> 17, << 5, & 0xFFFFFFFF
ShiftA == 13
ShiftB == 17
ShiftC == 5
WordBits == 32

(***************************************************************************)
(* What the environment may hand to the program.                           *)
(***************************************************************************)
\* the byte os.urandom fills its result with
RandomFill == {170}
\* low byte of a measured duration
JitterVals == {3}
\* time.time_ns()
TimeVals == {1234567}
\* os.getpid()
PidVals == {4242}
\* one block of int16 samples read from the stream, ChunkSize \div 2 long
AudioBlocks == { [i \in 1..(ChunkSize \div 2) |-> IF i = 2 THEN 1 ELSE 3 * i] }
Env == [fill : RandomFill, jit : JitterVals, now : TimeVals]

(***************************************************************************)
(* Byte sequences.                                                         *)
(***************************************************************************)
Min(a, b) == IF a < b THEN a ELSE b
Max(a, b) == IF a > b THEN a ELSE b

\* s[:n]
Take(s, n) == SubSeq(s, 1, Min(n, Len(s)))
\* s[-n:]
LastN(s, n) == SubSeq(s, Max(1, Len(s) - n + 1), Len(s))
\* s[a:b]
Slice(s, a, b) == SubSeq(s, a + 1, Min(b, Len(s)))
\* n copies of byte b
Fill(n, b) == [i \in 1..n |-> b]

RECURSIVE BitXor(_, _)
\* a ^ b on naturals
BitXor(a, b) ==
    IF a = 0 THEN b
    ELSE IF b = 0 THEN a
    ELSE ((a + b) % 2) + 2 * BitXor(a \div 2, b \div 2)

RECURSIVE LittleEndian(_, _)
\* the n low bytes of v, least significant first
LittleEndian(v, n) ==
    IF n = 0 THEN <<>> ELSE <<v % 256>> \o LittleEndian(v \div 256, n - 1)

Reverse(s) == [i \in 1..Len(s) |-> s[Len(s) + 1 - i]]

\* struct.pack with a native-order code of n bytes ('Q': 8, 'I': 4)
PackNative(v, n, order) ==
    IF order = "little" THEN LittleEndian(v, n) ELSE Reverse(LittleEndian(v, n))

\* An unsigned 32-bit value, held as two 16-bit halves: hi * 65536 + lo.
\* struct.unpack('I', b)[0]: the 4 bytes of b read in native order
UnpackNative(b, order) ==
    IF order = "little"
    THEN [hi |-> b[4] * 256 + b[3], lo |-> b[2] * 256 + b[1]]
    ELSE [hi |-> b[1] * 256 + b[2], lo |-> b[3] * 256 + b[4]]

(***************************************************************************)
(* hashlib, as a fixed function with the digest's length.                  *)
(***************************************************************************)
\* how many bytes of m, taken with their positions, fall in a residue class
Count(m, k) == Cardinality({i \in 1..Len(m) : (m[i] + i) % k = 0})
\* the state a digest reaches from acc over the message m
Absorb(acc, m) ==
    (acc * (Len(m) + 1) + 7 * Count(m, 3) + 13 * Count(m, 5) + 29 * Count(m, 7))
        % 65521

\* the digest's bytes, spread from the absorbed state c
Squeeze256(c) == [i \in 1..32 |-> (c * i + c \div (i + 1) + i * i) % 256]
Squeeze512(c) == [i \in 1..64 |-> (c * (i + 2) + c \div i + 3 * i) % 256]
Sha256(m) == Squeeze256(Absorb(7, m))
Sha512(m) == Squeeze512(Absorb(11, m))

(***************************************************************************)
(* _von_neumann_debias                                                     *)
(***************************************************************************)
RECURSIVE VonNeumannSliding(_, _)
\* a faulty loop: "i += 1", so the pairs overlap
VonNeumannSliding(bits, i) ==
    IF i < Len(bits)
    THEN (IF bits[i] # bits[i + 1] THEN <<bits[i]>> ELSE <<>>)
         \o VonNeumannSliding(bits, i + 1)
    ELSE <<>>

RECURSIVE VonNeumannFrom(_, _)
\* lines 150-154 from index i on (counted from 1)
VonNeumannFrom(bits, i) ==
    IF i < Len(bits)
    THEN (IF bits[i] # bits[i + 1] THEN <<bits[i]>> ELSE <<>>)
         \o VonNeumannFrom(bits, i + 2)
    ELSE <<>>
VonNeumannDebias(bits) == VonNeumannFrom(bits, 1)

(***************************************************************************)
(* _collect_microphone_entropy, lines 104-141: the features of one block   *)
(***************************************************************************)
\* audio_array & 0x01
LsbBits(a) == [i \in 1..Len(a) |-> a[i] % 2]
\* (np.abs(fft[len//2:]).astype(uint8) & 0x0F): len - len//2 low nibbles.
\* numpy's transform is outside the repository; only the length is modelled.
SpectralFeature(a) ==
    IF Len(a) >= SpectralMin
    THEN [i \in 1..(Len(a) - Len(a) \div 2) |-> a[Len(a) \div 2 + i] % 16]
    ELSE <<>>
\* (np.diff(np.diff(a)).astype(uint8) & 0x07)
DiffFeature(a) ==
    IF Len(a) > 2
    THEN [i \in 1..(Len(a) - 2) |-> (a[i + 2] - 2 * a[i + 1] + a[i]) % 8]
    ELSE <<>>
\* low bytes of min(10, len) measured durations
JitterFeature(a, e) == Fill(Min(MaxExtractJitter, Len(a)), e.jit)

Extract(a, e, order) ==
    VonNeumannDebias(LsbBits(a)) \o SpectralFeature(a) \o DiffFeature(a)
        \o JitterFeature(a, e) \o PackNative(e.now, PackQ, order)

\* os.urandom(n)
Urandom(n, e) == Fill(n, e.fill)

(***************************************************************************)
(* State.                                                                  *)
(***************************************************************************)
VARIABLES
    AUDIO_AVAILABLE,    \* module flag: did "import pyaudio" succeed
    byteorder,          \* the platform's native byte order
    pid,                \* os.getpid()
    audio,              \* self.audio: "None" or "PyAudio"
    stream,             \* self.stream: "None" or "Stream"
    collecting,         \* self.collecting
    collection_thread,  \* self.collection_thread: "None" or "Thread"
    entropy_pool,       \* self.entropy_pool, a byte sequence
    entropy_queue,      \* self.entropy_queue, a sequence of samples
    entropy_history,    \* self.entropy_history, a byte sequence
    pa,                 \* the PortAudio session: "uninit", "initialized", "terminated"
    st,                 \* the stream object: "none", "active", "stopped", "closed"
    pc,                 \* where each thread is
    sample,             \* the collector's local "entropy" (line 88)
    acc,                \* entropy_sources of _collect_additional_entropy
    calls,              \* the calls of next, refresh_entropy and cleanup so far
    iters,              \* iterations the collector's loop has started
    ret,                \* the caller's current or last call and how it ended
    stage2_hash,        \* next()'s local stage2_hash (line 214), run on its own
    xor_result,         \* next()'s local xor_result (line 219), run on its own
    bits,               \* the argument of _von_neumann_debias, run on its own
    debiased,           \* what _von_neumann_debias returned
    replay,             \* two next() calls replayed from one pool: the first's record
    callers,            \* threads inside next() at once: each one's place and locals
    gen                 \* an LCGGenerator or XORShiftGenerator object

vars == <<AUDIO_AVAILABLE, byteorder, pid, audio, stream, collecting,
          collection_thread, entropy_pool, entropy_queue, entropy_history,
          pa, st, pc, sample, acc, calls, iters, ret,
          stage2_hash, xor_result, bits, debiased, replay, callers, gen>>

platform == <<AUDIO_AVAILABLE, byteorder, pid>>
fields == <<audio, stream, collecting, collection_thread>>
device == <<pa, st>>
data == <<entropy_pool, entropy_queue, entropy_history>>
\* what only the runs of single functions use
unit == <<stage2_hash, xor_result, bits, debiased, replay, callers, gen>>

Threads == {"main", "collector"}
ByteOrders == {"little"}

\* lines 24-32: the fields as __init__ sets them before it opens the device
Init ==
    /\ AUDIO_AVAILABLE \in BOOLEAN
    /\ byteorder \in ByteOrders
    /\ pid \in PidVals
    /\ audio = "None"
    /\ stream = "None"
    /\ collecting = FALSE
    /\ collection_thread = "None"
    /\ entropy_pool = <<>>
    /\ entropy_queue = <<>>
    /\ entropy_history = <<>>
    /\ pa = "uninit"
    /\ st = "none"
    /\ pc = [t \in Threads |-> IF t = "main" THEN "ctor" ELSE "unborn"]
    /\ sample = <<>>
    /\ acc = <<>>
    /\ calls = <<>>
    /\ iters = 0
    /\ ret = [op |-> "ctor", status |-> "running", val |-> 0]
    /\ stage2_hash = <<>>
    /\ xor_result = <<>>
    /\ bits = <<>>
    /\ debiased = <<>>
    /\ replay = <<>>
    /\ callers = <<>>
    /\ gen = <<>>

(***************************************************************************)
(* PyAudio's stream, as the program sees it.                               *)
(***************************************************************************)
\* stream.is_stopped(): raises on a closed stream, may raise on a device
\* error, otherwise tells whether the stream is stopped
IsStoppedOutcomes ==
    IF st = "closed" THEN {"raise"}
    ELSE {"raise", IF st = "stopped" THEN "stopped" ELSE "running"}

\* "if not self.stream or self.stream.is_stopped(): return os.urandom(32)",
\* lines 98-99: the check raises, or sends the thread to the fallback, or
\* lets it go on to stream.read()
MicCheckOutcomes ==
    IF stream = "None" THEN {"fallback"}
    ELSE { IF o = "stopped" THEN "fallback" ELSE IF o = "running" THEN "read" ELSE o
           : o \in IsStoppedOutcomes }

\* lines 99 and 145: os.urandom(32)
FallbackSamples == { Urandom(FallbackLen, e) : e \in Env }

\* lines 103-145: what _collect_microphone_entropy returns once it is in
\* stream.read(): the features of the block read, or, the read having raised,
\* the substitute of line 145.  A stream stopped or closed under the reader
\* may do either.
ReadSamples ==
    { Extract(a, e, byteorder) : a \in AudioBlocks, e \in Env } \cup FallbackSamples

\* a faulty full(): the queue never reports itself full
QueueNeverFull(q) == FALSE

\* queue.Queue.full()
QueueFull(q) == Len(q) >= QueueMaxSize

\* a faulty deque: when full it keeps the oldest bytes and drops the new ones
HistoryExtendKeepsOldest(h, b) == Take(h \o b, HistoryMaxLen)

\* deque(maxlen=HistoryMaxLen).extend(b)
HistoryExtend(h, b) == LastN(h \o b, HistoryMaxLen)

Goto(t, where) == pc' = [pc EXCEPT ![t] = where]

Running(method) == [op |-> method, status |-> "running", val |-> 0]
Returned(method, v) == [op |-> method, status |-> "returned", val |-> v]
Raised(method) == [op |-> method, status |-> "raised", val |-> 0]

\* An exception leaves the method the caller's thread is in: __init__ fails,
\* any other method ends with the exception handed to its caller.
CallerRaises(method) ==
    /\ Goto("main", IF method = "ctor" THEN "failed" ELSE "idle")
    /\ ret' = Raised(method)
    /\ acc' = <<>>

(***************************************************************************)
(* The conditioner, lines 169-227                                          *)
(***************************************************************************)
\* a faulty mix: the jitter bytes taken from how much history there is
AdditionalEntropyFromHistory(queued, fresh, e, order) ==
    queued \o fresh \o Urandom(MixLen, e)
           \o Fill(JitterSamples, Len(entropy_history) % 256)
           \o PackNative(e.jit, PackQ, order)

\* lines 169-192: queued samples, the fresh sample, os.urandom(16), 20 jitter
\* bytes and one packed duration
AdditionalEntropy(queued, fresh, e, order) ==
    queued \o fresh \o Urandom(MixLen, e) \o Fill(JitterSamples, e.jit)
           \o PackNative(e.jit, PackQ, order)

\* lines 205-214
Stage1(pool, entropy) == Sha256(pool \o entropy)
Stage2(pool, entropy) == Sha512(Stage1(pool, entropy) \o LastN(entropy, TailLen))
\* line 219: bytes(a ^ b for a, b in zip(p1, p2))
XorZip(p1, p2) == [i \in 1..Min(Len(p1), Len(p2)) |-> BitXor(p1[i], p2[i])]
\* lines 217-219: stage2_hash[:32] against stage2_hash[32:]
XorFold(d) == XorZip(Take(d, HashHalf), Slice(d, HashHalf, Len(d)))
XorResult(pool, entropy) == XorFold(Stage2(pool, entropy))
\* line 222
RandomInt(x, order) == UnpackNative(Take(x, OutLen), order)
\* a faulty line 225: xor_result[4:], the slice without its end
NewPoolToEnd(x) == Slice(x, OutLen, Len(x))

\* a faulty line 225: xor_result[:24], the slice from the block's start
NewPoolFromStart(x) == Slice(x, 0, PoolLen)

\* line 225
NewPool(x) == Slice(x, OutLen, PoolEnd)

\* next() from the fresh sample on, lines 170-227, with the bytes e that
\* os.urandom and the clock hand to it
ConditionWith(queued, fresh, e) ==
    LET entropy == AdditionalEntropy(queued, fresh, e, byteorder)
        x == XorResult(entropy_pool, entropy)
    IN /\ entropy_history' =
              HistoryExtend(entropy_history, Take(entropy, HistorySlice))
       /\ entropy_pool' = NewPool(x)
       /\ ret' = Returned("next", RandomInt(x, byteorder))

Condition(queued, fresh) ==
    /\ \E e \in Env : ConditionWith(queued, fresh, e)
    /\ acc' = <<>>
    /\ Goto("main", "idle")

(***************************************************************************)
(* _collect_initial_entropy, lines 63-73                                   *)
(***************************************************************************)
\* a faulty seeding: the pool is overwritten by the ingredients
SeedPoolReplaces(pool, mic_entropy, e, order, p) ==
    mic_entropy \o Urandom(FallbackLen, e) \o PackNative(e.now, PackQ, order)
        \o PackNative(p, PackI, order)

\* the pool is extended by the sample and the three ingredients
SeedPool(pool, mic_entropy, e, order, p) ==
    pool \o mic_entropy \o Urandom(FallbackLen, e) \o PackNative(e.now, PackQ, order)
         \o PackNative(p, PackI, order)

Seed(method, mic_entropy) ==
    /\ \E e \in Env :
          entropy_pool' = SeedPool(entropy_pool, mic_entropy, e, byteorder, pid)
    /\ ret' = Returned(method, 0)
    /\ acc' = <<>>
    /\ Goto("main", "idle")
    /\ UNCHANGED entropy_history

\* what the caller's method does with the sample _collect_microphone_entropy
\* returned to it
Use(method, queued, fresh) ==
    IF method = "next" THEN Condition(queued, fresh) ELSE Seed(method, fresh)

(***************************************************************************)
(* _collect_microphone_entropy on the caller's thread, lines 96-145        *)
(***************************************************************************)
\* lines 98-99, entered from method with the queued samples it holds: the
\* check raises, or the fallback sample is used at once, or the thread goes
\* into stream.read()
MicEntry(method, queued) ==
    \E o \in MicCheckOutcomes :
       CASE o = "raise" ->
               CallerRaises(method) /\ UNCHANGED <<entropy_pool, entropy_history>>
         [] o = "fallback" -> \E s \in FallbackSamples : Use(method, queued, s)
         [] o = "read" ->
               /\ Goto("main", "in_read")
               /\ ret' = Running(method)
               /\ acc' = queued
               /\ UNCHANGED <<entropy_pool, entropy_history>>

\* lines 103-145, and what the method does with the sample
MicRead ==
    /\ pc["main"] = "in_read"
    /\ \E s \in ReadSamples : Use(ret.op, acc, s)
    /\ UNCHANGED <<unit, platform, fields, device, entropy_queue, sample, calls, iters>>

\* _collect_initial_entropy up to its sample, lines 59-62: line 61 is
\* "if self.stream and not self.stream.is_stopped()"; without a running stream
\* lines 66-73 follow at once
InitialEntropy(method) ==
    \/ /\ stream = "None"
       /\ Seed(method, <<>>)
    \/ /\ stream # "None"
       /\ \E o \in IsStoppedOutcomes :
             CASE o = "raise" ->
                     CallerRaises(method) /\ UNCHANGED <<entropy_pool, entropy_history>>
               [] o = "stopped" -> Seed(method, <<>>)
               [] o = "running" -> MicEntry(method, <<>>)

(***************************************************************************)
(* __init__, lines 34-38                                                   *)
(***************************************************************************)
\* _setup_audio, lines 40-55
SetupAudio ==
    /\ pc["main"] = "ctor"
    /\ \/ /\ ~AUDIO_AVAILABLE
          /\ UNCHANGED <<audio, stream, pa, st>>
       \/ /\ AUDIO_AVAILABLE              \* PyAudio() raises
          /\ UNCHANGED <<audio, stream, pa, st>>
       \/ /\ AUDIO_AVAILABLE              \* PyAudio() succeeds, open raises
          /\ pa' = "initialized"
          /\ UNCHANGED <<audio, stream, st>>
       \/ /\ AUDIO_AVAILABLE              \* both succeed
          /\ pa' = "initialized"
          /\ audio' = "PyAudio"
          /\ stream' = "Stream"
          /\ st' = "active"
    /\ Goto("main", "ctor_start")
    /\ UNCHANGED <<unit, platform, collecting, collection_thread, data, sample,
                   acc, calls, iters, ret>>

\* _start_continuous_collection, lines 75-82 (called only if AUDIO_AVAILABLE)
StartContinuousCollection ==
    /\ pc["main"] = "ctor_start"
    /\ IF AUDIO_AVAILABLE /\ stream # "None"
       THEN /\ collecting' = TRUE
            /\ collection_thread' = "Thread"
            /\ pc' = [pc EXCEPT !["main"] = "ctor_seed",
                                !["collector"] = "loop_flag"]
       ELSE /\ Goto("main", "ctor_seed")
            /\ UNCHANGED <<collecting, collection_thread>>
    /\ UNCHANGED <<unit, platform, audio, stream, device, data, sample, acc, calls,
                   iters, ret>>

\* line 38: _collect_initial_entropy, as __init__ calls it
CollectInitialEntropy ==
    /\ pc["main"] = "ctor_seed"
    /\ InitialEntropy("ctor")
    /\ UNCHANGED <<unit, platform, fields, device, entropy_queue, sample, calls, iters>>

(***************************************************************************)
(* The caller's method calls.                                              *)
(***************************************************************************)
Callable == pc["main"] = "idle" /\ Len(calls) < MaxOps

\* lines 162-169: "while not empty: extend(get_nowait())", one turn; the turn
\* that finds the queue empty goes on to _collect_microphone_entropy
DrainStep(sources) ==
    IF entropy_queue = <<>>
    THEN /\ MicEntry("next", sources)
         /\ UNCHANGED entropy_queue
    ELSE /\ Goto("main", "drain")
         /\ ret' = Running("next")
         /\ acc' = sources \o Head(entropy_queue)
         /\ entropy_queue' = Tail(entropy_queue)
         /\ UNCHANGED <<entropy_pool, entropy_history>>

\* next(), line 198: into _collect_additional_entropy, to its first look at
\* the queue
NextBegin ==
    /\ Callable
    /\ calls' = Append(calls, "next")
    /\ DrainStep(<<>>)
    /\ UNCHANGED <<unit, platform, fields, device, sample, iters>>

Drain ==
    /\ pc["main"] = "drain"
    /\ DrainStep(acc)
    /\ UNCHANGED <<unit, platform, fields, device, sample, calls, iters>>

\* refresh_entropy(), lines 245-247: _collect_initial_entropy again
RefreshEntropy ==
    /\ Callable
    /\ calls' = Append(calls, "refresh")
    /\ InitialEntropy("refresh")
    /\ UNCHANGED <<unit, platform, fields, device, entropy_queue, sample, iters>>

\* cleanup(), line 293
CleanupBegin ==
    /\ Callable
    /\ calls' = Append(calls, "cleanup")
    /\ ret' = Running("cleanup")
    /\ collecting' = FALSE
    /\ Goto("main", "cl_join")
    /\ UNCHANGED <<unit, platform, audio, stream, collection_thread, device, data,
                   sample, acc, iters>>

\* lines 300-302: terminate() closes what is left of the session, and
\* cleanup returns
CleanupTerminate ==
    /\ IF audio # "None"
       THEN pa' = "terminated" /\ st' = (IF st = "none" THEN "none" ELSE "closed")
       ELSE UNCHANGED <<pa, st>>
    /\ ret' = Returned("cleanup", 0)
    /\ Goto("main", "idle")

\* lines 294-298: join(timeout=1.0) returns when the thread has ended or
\* when the second is over, whichever comes first; then stop_stream(), which
\* returns at once on a stream that is not running.  Without a stream
\* lines 300-302 follow.
CleanupStop ==
    /\ pc["main"] = "cl_join"
    /\ \/ /\ stream = "None"
          /\ CleanupTerminate
       \/ /\ stream # "None"
          /\ st # "active"
          /\ Goto("main", "cl_close")
          /\ UNCHANGED <<device, ret>>
       \/ /\ stream # "None"
          /\ st = "active"
          /\ st' = "stopped"
          /\ Goto("main", "cl_close")
          /\ UNCHANGED <<pa, ret>>
       \/ /\ stream # "None"
          /\ st = "active"
          /\ CallerRaises("cleanup")
          /\ UNCHANGED device
    /\ acc' = <<>>
    /\ UNCHANGED <<unit, platform, fields, data, sample, calls, iters>>

\* lines 299-302: close(), which returns at once on a closed stream, then
\* terminate()
CleanupClose ==
    /\ pc["main"] = "cl_close"
    /\ \/ CleanupTerminate
       \/ /\ st # "closed"
          /\ CallerRaises("cleanup")
          /\ UNCHANGED device
    /\ acc' = <<>>
    /\ UNCHANGED <<unit, platform, fields, data, sample, calls, iters>>

\* get_audio_status(), lines 249-257, o being what is_stopped() tells
AudioStatus(o) ==
    IF ~AUDIO_AVAILABLE THEN "PyAudio not available"
    ELSE IF stream = "None" THEN "Microphone not initialized"
    ELSE IF o = "stopped" THEN "Microphone stopped"
    ELSE "Microphone active"

\* get_entropy_estimate(), lines 241-243
GetEntropyEstimate == Len(entropy_pool)

(***************************************************************************)
(* _continuous_entropy_collection, lines 84-94                             *)
(***************************************************************************)
\* a faulty line 86: the loop condition without "self.collecting"
CollectorLoopIgnoresFlag ==
    /\ pc["collector"] = "loop_flag"
    /\ iters < MaxIters
    /\ iters' = iters + 1
    /\ Goto("collector", "loop_stream")
    /\ UNCHANGED <<unit, platform, fields, device, data, sample, acc, calls, ret>>

\* line 86, first conjunct: self.collecting.  The thread comes here from the
\* sleep that ends an iteration; it starts at most MaxIters iterations.
CollectorLoopFlag ==
    /\ pc["collector"] = "loop_flag"
    /\ IF collecting
       THEN /\ iters < MaxIters
            /\ iters' = iters + 1
            /\ Goto("collector", "loop_stream")
       ELSE /\ Goto("collector", "done")
            /\ UNCHANGED iters
    /\ UNCHANGED <<unit, platform, fields, device, data, sample, acc, calls, ret>>

\* line 86, the rest: self.stream and not self.stream.is_stopped(); outside
\* the try, so an exception ends the thread
CollectorLoopStream ==
    /\ pc["collector"] = "loop_stream"
    /\ IF stream = "None"
       THEN Goto("collector", "done")
       ELSE \E o \in IsStoppedOutcomes :
               Goto("collector", CASE o = "raise" -> "dead"
                                   [] o = "stopped" -> "done"
                                   [] o = "running" -> "mic_check")
    /\ UNCHANGED <<unit, platform, fields, device, data, sample, acc, calls, iters, ret>>

\* line 88, into _collect_microphone_entropy: lines 98-99.  An exception
\* that leaves it is caught at line 92, and after the handler's sleep the
\* thread is back at line 86.
CollectorMicCheck ==
    /\ pc["collector"] = "mic_check"
    /\ \E o \in MicCheckOutcomes :
          CASE o = "raise" -> Goto("collector", "loop_flag") /\ UNCHANGED sample
            [] o = "fallback" ->
                  /\ \E s \in FallbackSamples : sample' = s
                  /\ Goto("collector", "have_mic")
            [] o = "read" -> Goto("collector", "in_read") /\ UNCHANGED sample
    /\ UNCHANGED <<unit, platform, fields, device, data, acc, calls, iters, ret>>

\* line 88, lines 103-145
CollectorRead ==
    /\ pc["collector"] = "in_read"
    /\ \E s \in ReadSamples : sample' = s
    /\ Goto("collector", "have_mic")
    /\ UNCHANGED <<unit, platform, fields, device, data, acc, calls, iters, ret>>

\* line 89: if not self.entropy_queue.full(); a full queue drops the sample
\* and the iteration ends in the sleep of line 91
CollectorFull ==
    /\ pc["collector"] = "have_mic"
    /\ IF QueueFull(entropy_queue)
       THEN /\ Goto("collector", "loop_flag")
            /\ sample' = <<>>
       ELSE /\ Goto("collector", "q_put")
            /\ UNCHANGED sample
    /\ UNCHANGED <<unit, platform, fields, device, data, acc, calls, iters, ret>>

\* a faulty collector: the sample goes straight into the pool
CollectorPutsIntoPool ==
    /\ pc["collector"] = "q_put"
    /\ entropy_pool' = entropy_pool \o sample
    /\ sample' = <<>>
    /\ Goto("collector", "loop_flag")
    /\ UNCHANGED <<unit, platform, fields, device, entropy_queue, entropy_history,
                   acc, calls, iters, ret>>

\* lines 90-91: self.entropy_queue.put(entropy), which waits while the queue
\* is full, then time.sleep(0.01)
CollectorPut ==
    /\ pc["collector"] = "q_put"
    /\ Len(entropy_queue) < QueueMaxSize
    /\ entropy_queue' = Append(entropy_queue, sample)
    /\ sample' = <<>>
    /\ Goto("collector", "loop_flag")
    /\ UNCHANGED <<unit, platform, fields, device, entropy_pool, entropy_history,
                   acc, calls, iters, ret>>

(***************************************************************************)
(* The two threads.                                                        *)
(***************************************************************************)
Construct == SetupAudio \/ StartContinuousCollection \/ CollectInitialEntropy

Caller ==
    \/ Construct
    \/ NextBegin \/ Drain \/ MicRead
    \/ RefreshEntropy
    \/ CleanupBegin \/ CleanupStop \/ CleanupClose

Collector ==
    \/ CollectorLoopFlag \/ CollectorLoopStream
    \/ CollectorMicCheck \/ CollectorRead
    \/ CollectorFull \/ CollectorPut

Next == Caller \/ Collector

Spec == Init /\ [][Next]_vars

\* The collector is a thread of its own: the scheduler keeps running it.
FairSpec == Spec /\ WF_vars(Collector)

(***************************************************************************)
(* The end of next() on its own, lines 217-227, and normalized_next(),     *)
(* line 235, over the digests stage 2 can hand to it and both byte orders. *)
(***************************************************************************)
\* sys.byteorder
AllByteOrders == {"little", "big"}

\* An unsigned 32-bit comparison on the two halves
Less(a, b) == a.hi < b.hi \/ (a.hi = b.hi /\ a.lo < b.lo)
\* 0xFFFFFFFF, line 235
MaxU32 == [hi |-> 65535, lo |-> 65535]
\* Python's v / d on two 32-bit values, kept as the fraction: the float is 1.0
\* when v = d, and a fraction below 1 is at most 1 - 2^-32, which the float's
\* 53 bits keep below 1.0
TrueDiv(v, d) == [num |-> v, den |-> d]

\* A generator built without a device and at rest between two calls: what
\* lines 24-38 leave of the fields that the steps below do not touch
AtRest ==
    /\ AUDIO_AVAILABLE = FALSE
    /\ pid \in PidVals
    /\ audio = "None"
    /\ stream = "None"
    /\ collecting = FALSE
    /\ collection_thread = "None"
    /\ entropy_queue = <<>>
    /\ pa = "uninit"
    /\ st = "none"
    /\ sample = <<>>
    /\ acc = <<>>
    /\ calls = <<>>
    /\ iters = 0

\* the pool after __init__ without a device, lines 66-73
SeededPools(order) ==
    { SeedPool(<<>>, <<>>, e, order, p) : e \in Env, p \in PidVals }
\* the entropy of a next() without a device and with an empty queue
FallbackEntropy(order) ==
    { AdditionalEntropy(<<>>, s, e, order) : s \in FallbackSamples, e \in Env }

\* hashlib.sha512(...).digest() can be any 64 bytes; the bytes that become the
\* output (0..3 and 32..35) are drawn, the others are told apart by position
HeadBytes == {0, 1, 255}
HalfBytes == {0, 255}
Stage2Digests ==
    { [i \in 1..(2 * HashHalf) |->
          IF i <= OutLen THEN a[i]
          ELSE IF i > HashHalf /\ i <= HashHalf + OutLen THEN b[i - HashHalf]
          ELSE (7 * i + 3) % 256]
      : a \in [1..OutLen -> HeadBytes], b \in [1..OutLen -> HalfBytes] }

\* after line 214 of a next() that normalized_next() or the caller made
EmitInit ==
    /\ AtRest
    /\ byteorder \in AllByteOrders
    /\ entropy_pool \in SeededPools(byteorder)
    /\ \E entropy \in FallbackEntropy(byteorder) :
          entropy_history = Take(entropy, HistorySlice)
    /\ pc = [t \in Threads |-> IF t = "main" THEN "fold" ELSE "unborn"]
    /\ ret \in {Running("next"), Running("normalized_next")}
    /\ stage2_hash \in Stage2Digests
    /\ xor_result = <<>>
    /\ bits = <<>>
    /\ debiased = <<>>
    /\ replay = <<>>
    /\ callers = <<>>
    /\ gen = <<>>

\* lines 217-219
Fold ==
    /\ pc["main"] = "fold"
    /\ xor_result' = XorFold(stage2_hash)
    /\ Goto("main", "emit")
    /\ UNCHANGED <<platform, fields, device, data, sample, acc, calls, iters,
                   ret, stage2_hash, bits, debiased, replay, callers, gen>>

\* lines 222-227: the integer and the new pool; next() returns the integer to
\* its caller, which is normalized_next() at line 235 or the program
Emit ==
    /\ pc["main"] = "emit"
    /\ entropy_pool' = NewPool(xor_result)
    /\ IF ret.op = "next"
       THEN /\ ret' = Returned("next", RandomInt(xor_result, byteorder))
            /\ Goto("main", "idle")
       ELSE /\ ret' = [Running("normalized_next")
                          EXCEPT !.val = RandomInt(xor_result, byteorder)]
            /\ Goto("main", "divide")
    /\ UNCHANGED <<unit, platform, fields, device, entropy_queue,
                   entropy_history, sample, acc, calls, iters>>

\* line 235: self.next() / 0xFFFFFFFF
Divide ==
    /\ pc["main"] = "divide"
    /\ ret' = Returned("normalized_next", TrueDiv(ret.val, MaxU32))
    /\ Goto("main", "idle")
    /\ UNCHANGED <<unit, platform, fields, device, data, sample, acc, calls, iters>>

EmitNext == Fold \/ Emit \/ Divide

EmitSpec == EmitInit /\ [][EmitNext]_vars

(***************************************************************************)
(* next() replayed: calls made one after the other from the same pool      *)
(* value, with an empty queue and _collect_microphone_entropy replaced by  *)
(* a double that returns a fixed byte sequence.  os.urandom and the clock  *)
(* are not replaced: lines 173-190 draw from them in every call.           *)
(***************************************************************************)
\* how many calls are replayed
ReplayCalls == 2
\* what os.urandom and the clock can hand to two calls
ReplayEnv == [fill : {170, 85}, jit : {3, 4, 5}, now : TimeVals]
\* the byte sequences a double returns
Doubles == {Fill(FallbackLen, 17), <<1, 2, 3>>}

ReplayInit ==
    /\ AtRest
    /\ byteorder \in ByteOrders
    /\ \E e \in ReplayEnv, p \in PidVals :
          entropy_pool = SeedPool(<<>>, <<>>, e, byteorder, p)
    /\ entropy_history = <<>>
    /\ pc = [t \in Threads |-> IF t = "main" THEN "idle" ELSE "unborn"]
    /\ ret = Returned("ctor", 0)
    /\ stage2_hash = <<>>
    /\ xor_result = <<>>
    /\ bits = <<>>
    /\ debiased = <<>>
    /\ replay = <<>>
    /\ callers = <<>>
    /\ gen = <<>>

\* one next(), lines 194-227, and the record of what it started from, what it
\* was handed and what it gave
ReplayCall ==
    /\ pc["main"] = "idle"
    /\ Len(replay) < ReplayCalls
    /\ \E s \in (IF replay = <<>> THEN Doubles ELSE {replay[1].fresh}),
          e \in ReplayEnv :
          /\ ConditionWith(<<>>, s, e)
          /\ replay' = Append(replay, [pool |-> entropy_pool, fresh |-> s, e |-> e,
                                       out |-> ret'.val, newpool |-> entropy_pool'])
    /\ Goto("main", "replayed")
    /\ UNCHANGED <<platform, fields, device, entropy_queue, sample, acc, calls,
                   iters, stage2_hash, xor_result, bits, debiased, callers, gen>>

\* the harness puts the starting pool back for the next call
ReplayRestore ==
    /\ pc["main"] = "replayed"
    /\ Len(replay) < ReplayCalls
    /\ entropy_pool' = replay[1].pool
    /\ Goto("main", "idle")
    /\ UNCHANGED <<unit, platform, fields, device, entropy_queue, entropy_history,
                   sample, acc, calls, iters, ret>>

ReplayNext == ReplayCall \/ ReplayRestore

ReplaySpec == ReplayInit /\ [][ReplayNext]_vars

(***************************************************************************)
(* The three queries, lines 241-243 and 249-289, as calls of the program.  *)
(***************************************************************************)
\* a faulty line 261: only an empty history counts as too short
InsufficientDataWhenEmpty(h) == h = <<>>

\* line 261
InsufficientData(h) == Len(h) < MetricsMin

\* np.mean, np.std and np.corrcoef are outside the repository: a result is
\* held as the function's name and the number of bytes it was applied to
NumpyStat(f, n) == [np |-> f, n |-> n]

\* lines 261-289
EntropyQualityMetrics(h, q) ==
    IF InsufficientData(h)
    THEN [status |-> "insufficient_data"]
    ELSE LET unique_bytes == Cardinality({ h[i] : i \in 1..Len(h) })
         IN [sample_size |-> Len(h),
             mean |-> NumpyStat("mean", Len(h)),
             std |-> NumpyStat("std", Len(h)),
             entropy_estimate |-> [num |-> unique_bytes, den |-> ByteValues],
             unique_bytes |-> unique_bytes,
             serial_correlation |->
                 IF Len(h) > 1 THEN NumpyStat("corrcoef", Len(h) - 1) ELSE 0,
             queue_size |-> Len(q)]

\* a query is made of an object at rest, by the thread that makes the calls
Query(method, outcome) ==
    /\ pc["main"] = "idle"
    /\ ret' = outcome
    /\ UNCHANGED <<unit, platform, fields, device, data, pc, sample, acc, calls, iters>>

\* get_entropy_estimate(), lines 241-243, called
GetEntropyEstimateCall ==
    Query("get_entropy_estimate",
          Returned("get_entropy_estimate", GetEntropyEstimate))

\* get_audio_status(), lines 249-257: line 255 asks the stream, which may raise
GetAudioStatus ==
    \E o \in (IF AUDIO_AVAILABLE /\ stream # "None"
              THEN IsStoppedOutcomes ELSE {"running"}) :
       Query("get_audio_status",
             IF o = "raise" THEN Raised("get_audio_status")
             ELSE Returned("get_audio_status", AudioStatus(o)))

\* get_entropy_quality_metrics(), lines 259-289
GetEntropyQualityMetrics ==
    Query("get_entropy_quality_metrics",
          Returned("get_entropy_quality_metrics",
                   EntropyQualityMetrics(entropy_history, entropy_queue)))

Queries == GetEntropyEstimateCall \/ GetAudioStatus \/ GetEntropyQualityMetrics

QueryNext == Next \/ Queries

QuerySpec == Init /\ [][QueryNext]_vars

(***************************************************************************)
(* _von_neumann_debias on its own, lines 147-155, over every bit sequence  *)
(* up to MaxBits long.                                                     *)
(***************************************************************************)
BitSeqs == UNION { [1..n -> {0, 1}] : n \in 0..MaxBits }

DebiasInit ==
    /\ AtRest
    /\ byteorder \in ByteOrders
    /\ entropy_pool \in SeededPools(byteorder)
    /\ entropy_history = <<>>
    /\ pc = [t \in Threads |-> IF t = "main" THEN "debias" ELSE "unborn"]
    /\ ret = Running("_von_neumann_debias")
    /\ stage2_hash = <<>>
    /\ xor_result = <<>>
    /\ bits \in BitSeqs
    /\ debiased = <<>>
    /\ replay = <<>>
    /\ callers = <<>>
    /\ gen = <<>>

\* lines 149-155
Debias ==
    /\ pc["main"] = "debias"
    /\ debiased' = VonNeumannDebias(bits)
    /\ ret' = Returned("_von_neumann_debias", 0)
    /\ Goto("main", "idle")
    /\ UNCHANGED <<platform, fields, device, data, sample, acc, calls, iters,
                   stage2_hash, xor_result, bits, replay, callers, gen>>

DebiasNext == Debias

DebiasSpec == DebiasInit /\ [][DebiasNext]_vars

(***************************************************************************)
(* Two threads of the program inside next() of one object at once, lines   *)
(* 194-227, without a device and with an empty queue.  The interpreter may *)
(* switch threads between any two statements; next() takes no lock.        *)
(***************************************************************************)
CallerThreads == {"t1", "t2"}

\* a thread that has not called yet
NotCalled == [at |-> "idle", entropy |-> <<>>, read |-> <<>>, x |-> <<>>,
              out |-> [hi |-> 0, lo |-> 0]]

ConcurrentInit ==
    /\ AtRest
    /\ byteorder \in ByteOrders
    /\ entropy_pool \in SeededPools(byteorder)
    /\ entropy_history = <<>>
    /\ pc = [t \in Threads |-> IF t = "main" THEN "idle" ELSE "unborn"]
    /\ ret = Returned("ctor", 0)
    /\ stage2_hash = <<>>
    /\ xor_result = <<>>
    /\ bits = <<>>
    /\ debiased = <<>>
    /\ replay = <<>>
    /\ callers = [t \in CallerThreads |-> NotCalled]
    /\ gen = <<>>

\* what a step of thread t leaves alone besides the pool and the history
ConcFrame ==
    UNCHANGED <<platform, fields, device, entropy_queue, pc, sample, acc, calls,
                iters, ret, stage2_hash, xor_result, bits, debiased, replay, gen>>

\* lines 198-201: the entropy of the call, and its first 100 bytes into the
\* history
ConcCollect(t) ==
    /\ callers[t].at = "idle"
    /\ \E s \in FallbackSamples, e \in ReplayEnv :
          LET entropy == AdditionalEntropy(<<>>, s, e, byteorder)
          IN /\ callers' = [callers EXCEPT ![t].at = "collected",
                                           ![t].entropy = entropy]
             /\ entropy_history' =
                   HistoryExtend(entropy_history, Take(entropy, HistorySlice))
    /\ UNCHANGED entropy_pool
    /\ ConcFrame

\* lines 204-219: line 206 reads self.entropy_pool into the first hash; the
\* digests and the fold are locals of the thread
ConcHash(t) ==
    /\ callers[t].at = "collected"
    /\ callers' = [callers EXCEPT
                      ![t].at = "hashed",
                      ![t].read = entropy_pool,
                      ![t].x = XorResult(entropy_pool, callers[t].entropy)]
    /\ UNCHANGED <<entropy_pool, entropy_history>>
    /\ ConcFrame

\* a next() under a lock: the pool is hashed as it is when it is replaced
ConcWriteLocked(t) ==
    /\ callers[t].at = "hashed"
    /\ LET x == XorResult(entropy_pool, callers[t].entropy)
       IN /\ entropy_pool' = NewPool(x)
          /\ callers' = [callers EXCEPT ![t].at = "done", ![t].x = x,
                                        ![t].out = RandomInt(x, byteorder)]
    /\ UNCHANGED entropy_history
    /\ ConcFrame

\* lines 222-227: the integer and the new pool, from the thread's own fold
ConcWrite(t) ==
    /\ callers[t].at = "hashed"
    /\ entropy_pool' = NewPool(callers[t].x)
    /\ callers' = [callers EXCEPT
                      ![t].at = "done",
                      ![t].out = RandomInt(callers[t].x, byteorder)]
    /\ UNCHANGED entropy_history
    /\ ConcFrame

ConcurrentNext ==
    \E t \in CallerThreads : ConcCollect(t) \/ ConcHash(t) \/ ConcWrite(t)

ConcurrentSpec == ConcurrentInit /\ [][ConcurrentNext]_vars

(***************************************************************************)
(* LCGGenerator (lcg_generator.py) and XORShiftGenerator                   *)
(* (xorshift_generator.py): next, generate_sequence and reset on one       *)
(* object.  Python's integers do not overflow; the products of the LCG are *)
(* formed modulo the modulus, and the XORShift state is held as the set of *)
(* its one-bits so that the shifts beyond bit 31 are exact.                *)
(***************************************************************************)
\* (a + b) % m for a, b in 0..m-1
AddMod(a, b, m) == IF a >= m - b THEN a - (m - b) ELSE a + b

RECURSIVE MulMod(_, _, _)
\* (a * x) % m for x in 0..m-1
MulMod(a, x, m) ==
    IF a = 0 THEN 0
    ELSE LET h == MulMod(a \div 2, x, m)
             d == AddMod(h, h, m)
         IN IF a % 2 = 1 THEN AddMod(d, x, m) ELSE d

\* the one-bits of a seed below 2^31
Bits(v) == { i \in 0..(WordBits - 2) : (v \div (2 ^ i)) % 2 = 1 }
\* a ^ b, a << n, a >> n on sets of one-bits
SetXor(a, b) == (a \ b) \cup (b \ a)
Shl(a, n) == { i + n : i \in a }
Shr(a, n) == { i - n : i \in { j \in a : j >= n } }

\* lcg_generator.py line 23
LcgStep(g) ==
    AddMod(MulMod(g.multiplier, g.current % g.modulus, g.modulus),
           g.increment % g.modulus, g.modulus)

\* xorshift_generator.py lines 18-23
XorStep(state) ==
    LET s1 == SetXor(state, Shl(state, ShiftA))
        s2 == SetXor(s1, Shr(s1, ShiftB))
        s3 == SetXor(s2, Shl(s2, ShiftC))
    IN { i \in s3 : i < WordBits }

\* __init__ of either class; prev keeps what the object was before its last
\* reset call, and the argument of that call
NewGenerator(kind, seed, par) ==
    [kind |-> kind, seed |-> seed,
     modulus |-> par.modulus, multiplier |-> par.multiplier,
     increment |-> par.increment,
     current |-> IF kind = "lcg" THEN seed ELSE 0,
     state |-> IF kind = "xorshift" THEN Bits(seed) ELSE {},
     prev |-> [seed |-> seed, current |-> 0, state |-> {}, arg |-> <<>>]]

\* the object after next()
GenStep(g) ==
    IF g.kind = "lcg"
    THEN [g EXCEPT !.current = LcgStep(g)]
    ELSE [g EXCEPT !.state = XorStep(g.state)]
\* what that next() returned
Output(g) == IF g.kind = "lcg" THEN g.current ELSE g.state

RECURSIVE Outputs(_, _)
\* [self.next() for _ in range(n)]
Outputs(g, n) ==
    IF n = 0 THEN <<>>
    ELSE LET h == GenStep(g) IN <<Output(h)>> \o Outputs(h, n - 1)
RECURSIVE After(_, _)
\* the object after those n calls
After(g, n) == IF n = 0 THEN g ELSE After(GenStep(g), n - 1)

\* a faulty reset: the seed is stored, the running value is left as it is
ResetKeepsState(g, arg) ==
    [g EXCEPT !.seed = IF arg # <<>> THEN arg[1] ELSE g.seed]

\* reset(seed=None) past its check: lcg_generator.py lines 32-34,
\* xorshift_generator.py lines 33-37; arg is <<>> for None
ResetTo(g, arg) ==
    LET seed == IF arg # <<>> THEN arg[1] ELSE g.seed
    IN [g EXCEPT !.seed = seed,
                 !.current = IF g.kind = "lcg" THEN seed ELSE g.current,
                 !.state = IF g.kind = "xorshift" THEN Bits(seed) ELSE g.state]

LcgParams ==
    { [modulus |-> DefaultModulus, multiplier |-> DefaultMultiplier,
       increment |-> DefaultIncrement],
      [modulus |-> 97, multiplier |-> 5, increment |-> 3] }
NoParams == [modulus |-> 0, multiplier |-> 0, increment |-> 0]
SeedVals == {0, 1, 12345, DefaultModulus}

ResetInit ==
    /\ AtRest
    /\ byteorder \in ByteOrders
    /\ entropy_pool = <<>>
    /\ entropy_history = <<>>
    /\ pc = [t \in Threads |-> IF t = "main" THEN "idle" ELSE "unborn"]
    /\ ret = Returned("ctor", 0)
    /\ stage2_hash = <<>>
    /\ xor_result = <<>>
    /\ bits = <<>>
    /\ debiased = <<>>
    /\ replay = <<>>
    /\ callers = <<>>
    /\ gen \in { NewGenerator("lcg", sd, par) : sd \in SeedVals, par \in LcgParams }
               \cup { NewGenerator("xorshift", sd, NoParams) : sd \in SeedVals \ {0} }

GenCall(name) ==
    /\ Len(calls) < MaxGenCalls
    /\ calls' = Append(calls, name)
    /\ UNCHANGED <<platform, fields, device, data, pc, sample, acc, iters,
                   stage2_hash, xor_result, bits, debiased, replay, callers>>

\* next() of either class
GenNext ==
    /\ gen' = GenStep(gen)
    /\ ret' = Returned("next", Output(gen'))
    /\ GenCall("next")

\* generate_sequence(n) of either class
GenerateSequence ==
    /\ \E n \in 0..MaxSeqLen :
          /\ gen' = After(gen, n)
          /\ ret' = Returned("generate_sequence", Outputs(gen, n))
    /\ GenCall("generate_sequence")

\* reset(seed=None); XORShiftGenerator raises ValueError on seed == 0 before
\* it assigns anything (lines 34-35)
Reset ==
    \E arg \in {<<>>} \cup { <<sd>> : sd \in SeedVals } :
       LET before == [seed |-> gen.seed, current |-> gen.current,
                      state |-> gen.state, arg |-> arg]
       IN IF gen.kind = "xorshift" /\ arg = <<0>>
          THEN /\ gen' = [gen EXCEPT !.prev = before]
               /\ ret' = Raised("reset")
               /\ GenCall("reset_raised")
          ELSE /\ gen' = [ResetTo(gen, arg) EXCEPT !.prev = before]
               /\ ret' = Returned("reset", 0)
               /\ GenCall("reset")

ResetNext == GenNext \/ GenerateSequence \/ Reset

ResetSpec == ResetInit /\ [][ResetNext]_vars

(***************************************************************************)
(* Vocabulary of the properties.                                           *)
(***************************************************************************)
Range(s) == { s[i] : i \in DOMAIN s }
\* __init__ has returned the object
Constructed ==
    /\ pc["main"] \notin {"ctor", "ctor_start", "ctor_seed", "failed"}
    /\ ~(ret.op = "ctor" /\ ret.status = "running")
\* the caller's current call has ended, one way or the other
Ended(method) == ret.op = method /\ ret.status # "running"
\* cleanup() has been called, so line 293 has cleared the flag
Closing == "cleanup" \in Range(calls)
\* the collector thread has not been started or has left its function
CollectorGone == pc["collector"] \in {"unborn", "done", "dead"}
\* the least one seeding adds: os.urandom(32), the timestamp and the pid
SeedLen == FallbackLen + PackQ + PackI
\* this step is one the caller's thread makes inside method
CallerStep(method) == ret'.op = method /\ (ret' # ret \/ calls' # calls)

(***************************************************************************)
(* C1.  A next() call always returns an output and never raises because of *)
(* the device, whatever the device's state: never opened, active, stopped, *)
(* a read that raises, a stream closed by an earlier cleanup().            *)
(***************************************************************************)
C1_NextNeverRaises == Ended("next") => ret.status = "returned"

(***************************************************************************)
(* C2.  After every completed next() call the entropy pool is exactly 24   *)
(* bytes long, whatever the state before the call was.                     *)
(***************************************************************************)
C2_PoolLenAfterNext ==
    (ret.op = "next" /\ ret.status = "returned") => Len(entropy_pool) = PoolLen

\* a next() that followed a refresh_entropy() on a generator with a stream:
\* the pool it found was two seedings long
C2_Witness ==
    /\ calls = <<"refresh", "next">>
    /\ ret = Returned("next", ret.val)
    /\ stream = "Stream"
    /\ Len(entropy_pool) = PoolLen

C4_CloseIdempotent ==
    Ended("cleanup") =>
        /\ ~collecting
        /\ st \in {"none", "closed"}
        /\ pa \in {"uninit", "terminated"}
        /\ (Len(calls) >= 2 /\ calls[Len(calls) - 1] = "cleanup")
               => ret.status = "returned"

(***************************************************************************)
(* C5.  The queue never holds more than its capacity, and the collector's  *)
(* push never waits: it is made only with room in the queue, and a sample  *)
(* that finds the queue full is dropped, the queue staying as it is.       *)
(***************************************************************************)
C5_QueueBounded ==
    /\ [](Len(entropy_queue) <= QueueMaxSize)
    /\ [](pc["collector"] = "q_put" => Len(entropy_queue) < QueueMaxSize)
    /\ [][ (pc["collector"] = "have_mic" /\ QueueFull(entropy_queue)
                /\ pc'["collector"] # "have_mic")
           => (entropy_queue' = entropy_queue /\ pc'["collector"] = "loop_flag")
       ]_vars

\* the collector holds a sample and the queue is full, no next() draining
C5_Witness ==
    /\ pc["collector"] = "have_mic"
    /\ Len(entropy_queue) = QueueMaxSize
    /\ sample # <<>>
    /\ "next" \notin Range(calls)

(***************************************************************************)
(* C6.  With the flag set and the stream active no error in an iteration   *)
(* (the status check of the loop condition, the read, the extraction, the  *)
(* push) ends the collector: the thread ends only once the flag is clear   *)
(* or the stream no longer active.                                         *)
(***************************************************************************)
C6_CollectorSurvivesErrors ==
    pc["collector"] \in {"done", "dead"} => (~collecting \/ st # "active")

(***************************************************************************)
(* C7.  Once cleanup() has cleared the flag it stays clear; the collector, *)
(* back at the head of its loop, leaves it and neither reads nor pushes    *)
(* again; and, scheduled fairly, the collector thread terminates.          *)
(***************************************************************************)
C7_CollectorStops ==
    /\ [](Closing => ~collecting)
    /\ [][ (Closing /\ pc["collector"] = "loop_flag")
              => pc'["collector"] \in {"loop_flag", "done"} ]_vars
    /\ [][ pc["collector"] \in {"done", "dead"}
              => /\ pc'["collector"] = pc["collector"]
                 /\ Len(entropy_queue') <= Len(entropy_queue) ]_vars
    /\ (Closing ~> CollectorGone)

\* cleanup() found the collector inside its iteration, and the thread has
\* left its loop
C7_Witness ==
    /\ Closing
    /\ pc["collector"] = "done"
    /\ iters = MaxIters
    /\ entropy_queue # <<>>

(***************************************************************************)
(* C8.  cleanup() always ends, and when the join has timed out, the        *)
(* collector still being in its loop, cleanup() has all the same stopped   *)
(* and released the device and returned.                                   *)
(***************************************************************************)
C8_CloseCompletes ==
    (Ended("cleanup") /\ ~CollectorGone) =>
        /\ ret.status = "returned"
        /\ st = "closed"
        /\ pa = "terminated"

(***************************************************************************)
(* C9.  If stop_stream() or close() raises, cleanup() still clears the     *)
(* flag, still terminates the audio session, and hands no exception to its *)
(* caller.                                                                 *)
(***************************************************************************)
C9_CloseSurvivesStepFailure ==
    (Ended("cleanup") /\ audio # "None") =>
        /\ ~collecting
        /\ pa = "terminated"
        /\ ret.status = "returned"

(***************************************************************************)
(* C10.  If the device cannot be opened (no audio library, or opening      *)
(* raises) construction still completes with a seeded pool, no collector   *)
(* and the flag false, no audio session stays held, every later sample is  *)
(* the system-entropy fallback, and the status query says so.              *)
(***************************************************************************)
C10_DegradedConstruction ==
    (stream = "None" /\ pc["main"] \notin {"ctor", "ctor_start"}) =>
        /\ pc["main"] # "failed"
        /\ Constructed => Len(entropy_pool) >= PoolLen
        /\ ~collecting
        /\ collection_thread = "None"
        /\ pc["collector"] = "unborn"
        /\ MicCheckOutcomes = {"fallback"}
        /\ AudioStatus("running")
               \in {"PyAudio not available", "Microphone not initialized"}
        /\ pa \in {"uninit", "terminated"}

(***************************************************************************)
(* C11.  For every value next() can return, normalized_next() returns a    *)
(* value v with 0 <= v < 1: the upper bound is strict, 1 is never          *)
(* returned.  Line 235 divides by 0xFFFFFFFF, so the output 0xFFFFFFFF     *)
(* gives 1.0.                                                              *)
(***************************************************************************)
C11_NormalizedBelowOne ==
    (ret.op = "normalized_next" /\ ret.status = "returned")
        => Less(ret.val.num, ret.val.den)

(***************************************************************************)
(* C12.  The integer next() returns is the unsigned 32-bit big-endian      *)
(* reading b0*2^24 + b1*2^16 + b2*2^8 + b3 of the first four folded bytes, *)
(* folded byte i being byte i XOR byte i+32 of the stage-2 digest.         *)
(* Line 222 reads them in the platform's order instead.                    *)
(***************************************************************************)
C12_BigEndianOutput ==
    (ret.op = "next" /\ ret.status = "returned" /\ stage2_hash # <<>>)
        => LET b == [i \in 1..OutLen |->
                        BitXor(stage2_hash[i], stage2_hash[i + HashHalf])]
           IN ret.val = [hi |-> b[1] * 256 + b[2], lo |-> b[3] * 256 + b[4]]

(***************************************************************************)
(* C13.  After next() the pool is exactly bytes 4..27 of the folded block  *)
(* of that call: the old pool is wholly replaced, nothing of it is kept or *)
(* appended to, and the pool's bytes are not the four bytes 0..3 that gave *)
(* the returned integer.                                                   *)
(***************************************************************************)
C13_PoolIsFoldedSlice ==
    (pc["main"] \in {"divide", "idle"} /\ stage2_hash # <<>>)
        => /\ Len(entropy_pool) = PoolLen
           /\ \A j \in 1..PoolLen :
                 entropy_pool[j] = BitXor(stage2_hash[OutLen + j],
                                          stage2_hash[HashHalf + OutLen + j])

C13_Witness ==
    /\ pc["main"] = "idle"
    /\ Len(xor_result) = HashHalf
    /\ ret = Returned("next", RandomInt(xor_result, byteorder))
    /\ entropy_pool \notin SeededPools(byteorder)
    /\ Len(entropy_pool) < SeedLen

(***************************************************************************)
(* C14.  Each next() removes the samples that were queued when its drain   *)
(* began, concatenates them in FIFO order and then appends exactly one     *)
(* fresh sample extracted on the caller's thread: the entropy it combines  *)
(* is the drained samples followed by that sample, it is never empty, and  *)
(* with no collector running the queue is empty when next() returns.       *)
(* Stated of the step that ends a next() call; no collector: the thread    *)
(* was never started.                                                      *)
(***************************************************************************)
C14_DrainThenFresh ==
    [][ (ret'.op = "next" /\ ret'.status # "running"
            /\ (ret.status = "running" \/ calls' # calls))
        => LET drained == IF pc["main"] = "idle" THEN <<>> ELSE acc
           IN /\ \E s \in FallbackSamples \cup ReadSamples, e \in Env :
                    /\ s # <<>>
                    /\ entropy_history' =
                          HistoryExtend(entropy_history,
                              Take(AdditionalEntropy(drained, s, e, byteorder),
                                   HistorySlice))
              /\ entropy_history' # entropy_history
              /\ (pc["collector"] = "unborn" => entropy_queue' = <<>>) ]_vars

C16_MetricsThreshold ==
    Ended("get_entropy_quality_metrics")
        => /\ ret.status = "returned"
           /\ IF Len(entropy_history) < MetricsMin
              THEN ret.val = [status |-> "insufficient_data"]
              ELSE /\ DOMAIN ret.val =
                         {"sample_size", "mean", "std", "entropy_estimate",
                          "unique_bytes", "serial_correlation", "queue_size"}
                   /\ ret.val.sample_size = Len(entropy_history)

\* both results are returned: the short one on a fresh generator and after one
\* next() without a device, the full one after two
C16_Witness ==
    /\ Ended("get_entropy_quality_metrics")
    /\ Len(entropy_history) >= MetricsMin
    /\ ret.val.sample_size >= MetricsMin
    /\ calls = <<"next", "next">>

C16_WitnessShort ==
    /\ Ended("get_entropy_quality_metrics")
    /\ ~AUDIO_AVAILABLE
    /\ calls = <<"next">>
    /\ entropy_history # <<>>
    /\ ret.val = [status |-> "insufficient_data"]

(***************************************************************************)
(* C17.  After any sequence of next() calls the entropy history contains   *)
(* the bytes of the outputs those calls emitted, most recent last, holds   *)
(* at most its capacity, and evicts the oldest bytes first.  Stated of the *)
(* latest output: its four bytes, in either byte order, end the history.   *)
(***************************************************************************)
C17_HistoryHoldsOutputs ==
    /\ Len(entropy_history) <= HistoryMaxLen
    /\ (ret.op = "next" /\ ret.status = "returned")
          => LET out == <<ret.val.hi \div 256, ret.val.hi % 256,
                         ret.val.lo \div 256, ret.val.lo % 256>>
             IN LastN(entropy_history, OutLen) \in {out, Reverse(out)}

\* C17 as the code has it: the history is written by line 201 alone, which
\* appends the first 100 bytes of the entropy the call is about to hash (the
\* drained samples, the fresh sample and the system bytes), newest last; the
\* bytes kept from before are the newest of the old ones, in their order, and
\* the capacity is never exceeded.
C17_HistoryHoldsEntropy ==
    [][ /\ Len(entropy_history') <= HistoryMaxLen
        /\ entropy_history' # entropy_history
             => /\ ret'.op = "next"
                /\ ret'.status = "returned"
                /\ \E s \in FallbackSamples \cup ReadSamples, e \in Env :
                      LET drained == IF pc["main"] = "idle" THEN <<>> ELSE acc
                          slice == Take(AdditionalEntropy(drained, s, e, byteorder),
                                        HistorySlice)
                          n == Len(entropy_history')
                          kept == n - Len(slice)
                      IN /\ n = Min(Len(entropy_history) + Len(slice), HistoryMaxLen)
                         /\ SubSeq(entropy_history', kept + 1, n) = slice
                         /\ SubSeq(entropy_history', 1, kept) =
                               SubSeq(entropy_history,
                                      Len(entropy_history) - kept + 1,
                                      Len(entropy_history)) ]_vars

\* a next() has returned whose bytes did not all fit: the oldest were evicted
C17_Witness ==
    /\ ret.op = "next"
    /\ ret.status = "returned"
    /\ calls = <<"next", "next">>
    /\ Len(entropy_history) = HistoryMaxLen
    /\ LastN(entropy_history, PackQ) \in { PackNative(j, PackQ, byteorder) : j \in JitterVals }

(***************************************************************************)
(* C18.  _von_neumann_debias(b) is exactly the first bits b[2k], in        *)
(* increasing k, of the disjoint adjacent pairs (b[2k], b[2k+1]) whose     *)
(* bits differ: equal pairs give nothing, a trailing unpaired bit is       *)
(* ignored, the output is at most floor(len(b)/2) long, [0,0,1,1] gives    *)
(* the empty output and [0,1,0,1] gives [0,0].                             *)
(***************************************************************************)
C18_VonNeumann ==
    Ended("_von_neumann_debias")
        => LET pairs == 0..(Len(bits) \div 2 - 1)
               differ == { k \in pairs : bits[2 * k + 1] # bits[2 * k + 2] }
               place(k) == Cardinality({ j \in differ : j <= k })
           IN /\ Len(debiased) = Cardinality(differ)
              /\ Len(debiased) <= Len(bits) \div 2
              /\ \A k \in differ : debiased[place(k)] = bits[2 * k + 1]
              /\ bits = <<0, 0, 1, 1>> => debiased = <<>>
              /\ bits = <<0, 1, 0, 1>> => debiased = <<0, 0>>

\* a differing pair, an equal pair and a trailing bit
C18_Witness ==
    /\ Ended("_von_neumann_debias")
    /\ bits = <<1, 0, 1, 1, 0>>
    /\ debiased = <<1>>

(***************************************************************************)
(* C19.  After construction the entropy pool and the entropy history are   *)
(* changed only by steps of next(): every step of the collector, of        *)
(* cleanup(), of get_audio_status(), get_entropy_estimate() and            *)
(* get_entropy_quality_metrics() leaves both unchanged.                    *)
(***************************************************************************)
C19_OnlyNextWrites ==
    [][ (Constructed /\ <<entropy_pool, entropy_history>>' #
                            <<entropy_pool, entropy_history>>)
        => CallerStep("next") ]_vars

\* C19 as the code has it: the history is changed by next() alone, the pool by
\* next() and by refresh_entropy(); no step of the collector, of cleanup() or
\* of a query changes either.
C19_NextAndRefreshWrite ==
    [][ Constructed
        => /\ entropy_history' # entropy_history => CallerStep("next")
           /\ entropy_pool' # entropy_pool
                 => CallerStep("next") \/ CallerStep("refresh")
           /\ (\/ pc'["collector"] # pc["collector"]
               \/ ret'.op \in {"cleanup", "get_audio_status",
                               "get_entropy_estimate",
                               "get_entropy_quality_metrics"})
                 => UNCHANGED <<entropy_pool, entropy_history>> ]_vars

\* a sample went from the collector to a next() through the queue, and a
\* refresh_entropy() then grew the pool
C19_Witness ==
    /\ calls = <<"next", "refresh">>
    /\ ret = Returned("refresh", 0)
    /\ pc["collector"] # "unborn"
    /\ iters > 0
    /\ entropy_history # <<>>
    /\ Len(entropy_pool) > PoolLen

(***************************************************************************)
(* C20.  Construction opens the device, seeds the pool, then starts the    *)
(* collector: the collector is started only after the one-time seeding     *)
(* has finished, so the device read made by the seeding never overlaps a   *)
(* read made by the collector.                                             *)
(***************************************************************************)
C20_SeedBeforeCollector ==
    (ret.op = "ctor" /\ ret.status = "running")
        => /\ pc["collector"] = "unborn"
           /\ ~(pc["main"] = "in_read" /\ pc["collector"] = "in_read")

\* the overlap itself: __init__ and the collector are both inside stream.read()
C20_SeedingReadOverlaps ==
    /\ ret = Running("ctor")
    /\ pc["main"] = "in_read"
    /\ pc["collector"] = "in_read"

(***************************************************************************)
(* C22.  At most one thread is inside a read of the device stream at any   *)
(* time: a read by the collector never overlaps a read made on the         *)
(* caller's thread by next(), refresh_entropy() or the initial seeding.    *)
(***************************************************************************)
C22_OneReaderAtATime ==
    Cardinality({ t \in Threads : pc[t] = "in_read" }) <= 1

(***************************************************************************)
(* C23.  cleanup() never stops or closes the stream while the collector is *)
(* inside a device read or about to use the stream: once cleanup() has     *)
(* stopped or closed the stream the collector makes no further status      *)
(* check or read on it, also when the join timed out.                      *)
(***************************************************************************)
C23_CloseWaitsForCollector ==
    (Closing /\ st \in {"stopped", "closed"})
        => pc["collector"] \notin {"loop_stream", "mic_check", "in_read"}

(***************************************************************************)
(* C21.  Concurrent next() calls on one object are not serialized: with    *)
(* two caller threads both calls can read the same pool value before       *)
(* either writes its replacement, and then one of the two updates is lost: *)
(* the final pool is what one call alone makes of the pool both read, and  *)
(* the other call's entropy has no part in it.                             *)
(***************************************************************************)
C21_LostPoolUpdate ==
    (/\ \A t \in CallerThreads : callers[t].at = "done"
     /\ \A t, u \in CallerThreads : callers[t].read = callers[u].read)
        => \E t \in CallerThreads :
              entropy_pool =
                 NewPool(XorResult(callers[t].read, callers[t].entropy))

\* both calls read the seeded pool, gathered different entropy and returned;
\* the pool is the one t2 alone would have left, and not what the two calls
\* give one after the other in either order
C21_Witness ==
    /\ callers # <<>>
    /\ \A t \in CallerThreads : callers[t].at = "done"
    /\ callers["t1"].read = callers["t2"].read
    /\ callers["t1"].read \in SeededPools(byteorder)
    /\ callers["t1"].entropy # callers["t2"].entropy
    /\ LET p0 == callers["t1"].read
           after(p, t) == NewPool(XorResult(p, callers[t].entropy))
       IN /\ entropy_pool = after(p0, "t2")
          /\ entropy_pool # after(p0, "t1")
          /\ entropy_pool # after(after(p0, "t1"), "t2")
          /\ entropy_pool # after(after(p0, "t2"), "t1")

(***************************************************************************)
(* C24.  For LCGGenerator and XORShiftGenerator reset() restores the       *)
(* initial state: after any number of next() calls, reset() followed by    *)
(* generate_sequence(n) returns the n values a freshly constructed         *)
(* generator with the same seed and parameters returns; reset(s) behaves   *)
(* like a fresh generator seeded with s; XORShiftGenerator.reset(0) raises *)
(* and leaves seed and state unchanged.                                    *)
(***************************************************************************)
C24_ResetRestores ==
    LET n == Len(calls)
        fresh == NewGenerator(gen.kind, gen.seed,
                           [modulus |-> gen.modulus, multiplier |-> gen.multiplier,
                            increment |-> gen.increment])
        live(g) == <<g.seed, g.current, g.state>>
    IN (gen # <<>> /\ n > 0) =>
         /\ calls[n] = "reset"
               => /\ gen.seed = IF gen.prev.arg = <<>> THEN gen.prev.seed
                                ELSE gen.prev.arg[1]
                  /\ live(gen) = live(fresh)
                  /\ gen.kind = "xorshift" => gen.seed # 0
         /\ (n > 1 /\ calls[n - 1] = "reset" /\ calls[n] = "generate_sequence")
               => /\ ret.val = Outputs(fresh, Len(ret.val))
                  /\ live(gen) = live(After(fresh, Len(ret.val)))
         /\ calls[n] = "reset_raised"
               => /\ ret = Raised("reset")
                  /\ gen.kind = "xorshift"
                  /\ gen.prev.arg = <<0>>
                  /\ live(gen) = <<gen.prev.seed, gen.prev.current, gen.prev.state>>
         /\ (gen.kind = "xorshift" /\ gen.prev.arg = <<0>>)
               => calls[n] # "reset"

\* an XORShiftGenerator that was advanced, reset to another seed and asked
\* for a sequence
C24_Witness ==
    /\ gen # <<>>
    /\ gen.kind = "xorshift"
    /\ calls = <<"next", "reset", "generate_sequence">>
    /\ gen.prev.arg # <<>>
    /\ gen.prev.seed # gen.seed
    /\ gen.prev.state # Bits(gen.prev.seed)
    /\ Len(ret.val) = MaxSeqLen
    /\ ret.val[1] # ret.val[2]

\* an LCGGenerator with the default parameters, advanced and reset with no
\* argument
C24_WitnessLcg ==
    /\ gen # <<>>
    /\ gen.kind = "lcg"
    /\ gen.modulus = DefaultModulus
    /\ calls = <<"next", "reset", "generate_sequence">>
    /\ gen.prev.arg = <<>>
    /\ gen.prev.current # gen.seed
    /\ Len(ret.val) = MaxSeqLen

\* reset(0) on an advanced XORShiftGenerator
C24_WitnessRaise ==
    /\ gen # <<>>
    /\ calls = <<"next", "reset_raised">>
    /\ gen.state # Bits(gen.seed)
====
